---- MODULE Spec2Model ----
(***************************************************************************)
(* A model of logtree (src/logtree/logtree.py): the tokenizer, the tree    *)
(* builder LogTreeNode, the path lookup get_subtree, and the curses        *)
(* viewer's LogModel and TextView.                                         *)
(*                                                                         *)
(* Python strings are TLA+ strings; TLC evaluates Len, \o, SubSeq, Head    *)
(* and Tail on them.  Python lists are sequences, indexed from 1, so the   *)
(* Python index i is the TLA+ index i + 1.                                 *)
(***************************************************************************)
EXTENDS Integers, Sequences, FiniteSets, TLC

(***************************************************************************)
(* Program constants.                                                      *)
(***************************************************************************)
MAX_LAYERS_COUNT == 10
MIN_LINES_COUNT == 5
MAX_CHILDREN_COUNT == 200
MAX_VALUE_LENGTH == 80

(***************************************************************************)
(* Strings.                                                                *)
(***************************************************************************)
Min(S) == CHOOSE m \in S : \A n \in S : m <= n
Max(S) == CHOOSE m \in S : \A n \in S : m >= n

\* A list given by its elements [i \in 1..n |-> e], with every element
\* evaluated once, here.
list(elements) == <<>> \o elements

\* The character at Python index i of s: s[i].
CharAt(s, i) == SubSeq(s, i + 1, i + 1)

\* The printable ASCII characters in code point order: from the space (32) to
\* the underscore (95), and from a (97) to the tilde (126).
PrintableLow == " !\"#$%&'()*+,-./0123456789:;<=>?@ABCDEFGHIJKLMNOPQRSTUVWXYZ[\\]^_"
PrintableHigh == "abcdefghijklmnopqrstuvwxyz{|}~"

IndexIn(string, c) == CHOOSE i \in 1..Len(string) : SubSeq(string, i, i) = c

\* ord(c) of a one-character string: the tab, or a printable character.
ord(c) ==
    IF c = "\t" THEN 9
    ELSE IF \E i \in 1..Len(PrintableLow) : SubSeq(PrintableLow, i, i) = c
    THEN 31 + IndexIn(PrintableLow, c)
    ELSE 96 + IndexIn(PrintableHigh, c)

Digits == {"0", "1", "2", "3", "4", "5", "6", "7", "8", "9"}

\* Python's str.startswith.
startswith(s, prefix) ==
    Len(prefix) <= Len(s) /\ SubSeq(s, 1, Len(prefix)) = prefix

\* Python's comparison a < b of two strings: by the first differing
\* character, a proper prefix being the smaller.
str_lt(a, b) ==
    LET n == Min({Len(a), Len(b)})
        diff == {i \in 0..(n - 1) : CharAt(a, i) # CharAt(b, i)}
    IN IF diff = {} THEN Len(a) < Len(b)
       ELSE ord(CharAt(a, Min(diff))) < ord(CharAt(b, Min(diff)))

\* Python's s.strip(chars): the characters of the set chars removed from both
\* ends.
strip(s, chars) ==
    LET keep == {i \in 1..Len(s) : SubSeq(s, i, i) \notin chars}
    IN IF keep = {} THEN "" ELSE SubSeq(s, Min(keep), Max(keep))

\* What \s matches and str.strip() removes.  The lines main() hands over have
\* their line ends stripped, which leaves the space and the tab.
Whitespace == {" ", "\t"}

\* ' '.join(strings).
RECURSIVE join(_, _)
join(sep, strings) ==
    IF strings = <<>> THEN ""
    ELSE IF Len(strings) = 1 THEN strings[1]
    ELSE strings[1] \o sep \o join(sep, Tail(strings))

(***************************************************************************)
(* The tokenizer.                                                          *)
(***************************************************************************)
\* re.split(KEYWORD_SEPARATOR_RE, logline): the pieces between single
\* whitespace characters, empty pieces included.
RECURSIVE re_split(_)
re_split(logline) ==
    LET seps == {i \in 1..Len(logline) : SubSeq(logline, i, i) \in Whitespace}
    IN IF seps = {} THEN <<logline>>
       ELSE <<SubSeq(logline, 1, Min(seps) - 1)>>
            \o re_split(SubSeq(logline, Min(seps) + 1, Len(logline)))

\* The atoms the cruft patterns are made of: a class or a literal character,
\* repeated lo to hi times.
D(lo, hi) == [kind |-> "digit", ch |-> "", lo |-> lo, hi |-> hi]
W(lo, hi) == [kind |-> "word", ch |-> "", lo |-> lo, hi |-> hi]
Lit(c) == [kind |-> "char", ch |-> c, lo |-> 1, hi |-> 1]

\* \w over ASCII: letters, digits and the underscore.
WordChars ==
    {SubSeq(PrintableLow, i, i) : i \in 34..59}
    \cup {SubSeq(PrintableHigh, i, i) : i \in 1..26}
    \cup Digits \cup {"_"}

AtomMatches(atom, c) ==
    CASE atom.kind = "digit" -> c \in Digits
      [] atom.kind = "word" -> c \in WordChars
      [] OTHER -> c = atom.ch

\* The alternatives of CRUFT_RES, in its order.
CRUFT_RES ==
    << <<D(1, 3), Lit("."), D(1, 3), Lit("."), D(1, 3), Lit("."), D(1, 3)>>,
       <<D(4, 4), Lit("/"), D(2, 2), Lit("/"), D(2, 2)>>,
       <<D(1, 2), Lit("-"), W(3, 3), Lit("-"), D(2, 4)>>,
       <<D(1, 4), Lit("-"), D(1, 2), Lit("-"), D(1, 4)>>,
       <<D(2, 2), Lit(":"), D(2, 2), Lit(":"), D(2, 2)>>,
       <<D(1, 2), Lit("m")>>,
       <<D(1, 2), Lit("s")>>,
       <<D(1, 2), Lit("."), D(1, 2), Lit("s")>> >>

\* The numbers of characters of string a match of the atoms can consume,
\* starting after the first pos characters.
RECURSIVE match_ends(_, _, _)
match_ends(atoms, string, pos) ==
    IF atoms = <<>> THEN {pos}
    ELSE LET atom == Head(atoms)
             reps == {n \in atom.lo..atom.hi :
                        /\ pos + n <= Len(string)
                        /\ \A k \in 0..(n - 1) :
                              AtomMatches(atom, CharAt(string, pos + k))}
         IN UNION {match_ends(Tail(atoms), string, pos + n) : n \in reps}

\* re.match(CRUFT_RES, string) is not None: some alternative matches at the
\* start of the string.
is_cruft(string) ==
    \E i \in 1..Len(CRUFT_RES) : match_ends(CRUFT_RES[i], string, 0) # {}

SPECIALS == {" ", "\t", "(", ")", "[", "]", "{", "}", ":", ";", ".", ","}

strip_specials(string) == strip(string, SPECIALS)

get_keywords(logline) ==
    LET pieces == re_split(logline)
        stripped == list([i \in 1..Len(pieces) |-> strip_specials(pieces[i])])
    IN SelectSeq(stripped, LAMBDA s : s # "" /\ ~is_cruft(s))

(***************************************************************************)
(* The tree builder.  A node is a record: value, depth, log (_lines) and   *)
(* children are the fields of LogTreeNode; key, key_depth, threshold and   *)
(* assert_ok record how it was built: the keyword it was created for, the  *)
(* key depth _build_children stopped at, the last threshold the pruning    *)
(* loop applied (0 when the loop did not run) and whether every            *)
(* assert len(keys) >= key_depth passed.                                   *)
(***************************************************************************)
\* The keys of the dict keywords in insertion order: the distinct tokens at
\* key_depth of the lines that have one, by first occurrence.
keyword_keys(key_depth, lines_data) ==
    LET longer == SelectSeq(lines_data, LAMBDA d : Len(d.keys) > key_depth)
        key == list([i \in 1..Len(longer) |-> longer[i].keys[key_depth + 1]])
        first == {i \in 1..Len(key) : \A j \in 1..(i - 1) : key[j] # key[i]}
        rank == list([i \in 1..Len(key) |-> Cardinality({j \in first : j < i})])
    IN list([k \in 1..Cardinality(first) |->
                key[CHOOSE i \in first : rank[i] = k - 1]])

\* build_keywords with keywords[key].insert(0, ...) for append.
build_keywords_prepend(key_depth, lines_data) ==
    LET ks == keyword_keys(key_depth, lines_data)
        lines(key) ==
            SelectSeq(lines_data,
                      LAMBDA d : Len(d.keys) > key_depth /\ d.keys[key_depth + 1] = key)
    IN list([i \in 1..Len(ks) |->
                [key |-> ks[i],
                 lines |-> LET ls == lines(ks[i])
                           IN list([k \in 1..Len(ls) |-> ls[Len(ls) + 1 - k]])]])

\* The first loop of _build_children: the dict keywords, as the sequence of
\* its items in insertion order.
build_keywords(key_depth, lines_data) ==
    LET ks == keyword_keys(key_depth, lines_data)
    IN list([i \in 1..Len(ks) |->
                [key |-> ks[i],
                 lines |-> SelectSeq(lines_data,
                               LAMBDA d : Len(d.keys) > key_depth
                                          /\ d.keys[key_depth + 1] = ks[i])]])

\* large_enough_children with len(v) > min_child_line_count.
RECURSIVE large_enough_children_strict(_, _)
large_enough_children_strict(keywords, min_child_line_count) ==
    LET kept == SelectSeq(keywords,
                          LAMBDA item : Len(item.lines) > min_child_line_count)
    IN IF Len(kept) <= MAX_CHILDREN_COUNT
       THEN [keywords |-> kept, threshold |-> min_child_line_count]
       ELSE large_enough_children_strict(kept, min_child_line_count * 2)

\* large_enough_children with an if for the while: one pass.
large_enough_children_once(keywords, min_child_line_count) ==
    [keywords |-> SelectSeq(keywords,
                            LAMBDA item : Len(item.lines) >= min_child_line_count),
     threshold |-> min_child_line_count]

\* As large_enough_children, the threshold multiplied by 4.
RECURSIVE large_enough_children_fourfold(_, _)
large_enough_children_fourfold(keywords, min_child_line_count) ==
    LET kept == SelectSeq(keywords,
                          LAMBDA item : Len(item.lines) >= min_child_line_count)
    IN IF Len(kept) <= MAX_CHILDREN_COUNT
       THEN [keywords |-> kept, threshold |-> min_child_line_count]
       ELSE large_enough_children_fourfold(kept, min_child_line_count * 4)

\* The while loop of _build_children: the items that survive, and the last
\* threshold applied.
RECURSIVE large_enough_children(_, _)
large_enough_children(keywords, min_child_line_count) ==
    LET kept == SelectSeq(keywords,
                          LAMBDA item : Len(item.lines) >= min_child_line_count)
    IN IF Len(kept) <= MAX_CHILDREN_COUNT
       THEN [keywords |-> kept, threshold |-> min_child_line_count]
       ELSE large_enough_children(kept, min_child_line_count * 2)

\* self._children.sort(key=lambda c: c.value): a stable sort.
sort_children(children) ==
    LET rank == list([i \in 1..Len(children) |->
                    Cardinality({j \in 1..Len(children) :
                        \/ str_lt(children[j].value, children[i].value)
                        \/ children[j].value = children[i].value /\ j < i})])
    IN list([k \in 1..Len(children) |->
                children[CHOOSE i \in 1..Len(children) : rank[i] = k - 1]])

truncate(value) == SubSeq(value, 1, MAX_VALUE_LENGTH)

\* merge_value without the test for an empty value.
merge_value_always_space(value, key) == value \o " " \o key

\* The chain compression's new value: the only keyword, added to the value.
merge_value(value, key) == IF value # "" THEN value \o " " \o key ELSE key

\* below_max_layers with <= for <.
below_max_layers_or_at(depth) == depth <= MAX_LAYERS_COUNT

\* Whether __init__ builds children at this depth.
below_max_layers(depth) == depth < MAX_LAYERS_COUNT

\* build_tree's list of (keywords, line) pairs.
lines_data_of(loglines) ==
    list([i \in 1..Len(loglines) |->
            [keys |-> get_keywords(loglines[i]), line |-> loglines[i]]])

RECURSIVE LogTreeNode(_, _, _, _)
RECURSIVE _build_children(_, _, _, _)

\* _build_children of a node with the given value and depth: the node's new
\* value and its children (unsorted), with the record of the build.
_build_children(value, depth, key_depth, lines_data) ==
    LET keywords == build_keywords(key_depth, lines_data)
        has_final_lines ==
            \E i \in 1..Len(lines_data) : Len(lines_data[i].keys) = key_depth
        assert_ok ==
            \A i \in 1..Len(lines_data) : Len(lines_data[i].keys) >= key_depth
    IN IF ~assert_ok
       THEN [value |-> value, children |-> <<>>, key_depth |-> key_depth,
             threshold |-> 0, assert_ok |-> FALSE]
       ELSE IF Len(keywords) = 1 /\ ~has_final_lines
       THEN LET merged == merge_value(value, keywords[1].key)
            IN IF Len(merged) > MAX_VALUE_LENGTH
               THEN [value |-> truncate(merged), children |-> <<>>,
                     key_depth |-> key_depth, threshold |-> 0,
                     assert_ok |-> TRUE]
               ELSE _build_children(merged, depth, key_depth + 1, lines_data)
       ELSE LET pruned == large_enough_children(keywords, MIN_LINES_COUNT)
                children ==
                    list([i \in 1..Len(pruned.keywords) |->
                            LogTreeNode(pruned.keywords[i].lines,
                                        pruned.keywords[i].key,
                                        depth + 1, key_depth + 1)])
            IN [value |-> value, children |-> children,
                key_depth |-> key_depth, threshold |-> pruned.threshold,
                assert_ok |-> \A i \in 1..Len(children) : children[i].assert_ok]

\* LogTreeNode.__init__.
LogTreeNode(lines_data, value, depth, key_depth) ==
    LET lines == list([i \in 1..Len(lines_data) |-> lines_data[i].line])
        leaf == [value |-> value, depth |-> depth, log |-> lines,
                 children |-> <<>>, key |-> value, key_depth |-> key_depth,
                 threshold |-> 0, assert_ok |-> TRUE]
    IN IF Len(value) > MAX_VALUE_LENGTH
       THEN [leaf EXCEPT !.value = truncate(value)]
       ELSE IF below_max_layers(depth)
       THEN LET built == _build_children(value, depth, key_depth, lines_data)
            IN [leaf EXCEPT !.value = built.value,
                            !.children = sort_children(built.children),
                            !.key_depth = built.key_depth,
                            !.threshold = built.threshold,
                            !.assert_ok = built.assert_ok]
       ELSE leaf

build_tree(loglines) ==
    LogTreeNode(lines_data_of(loglines), "", 0, 0)

(***************************************************************************)
(* Path lookup.  A node of a tree is named by where it is: the child       *)
(* indices (from 1) that lead to it from the root, <<>> for the root.      *)
(***************************************************************************)
\* The node of tree at the given place.
RECURSIVE NodeAt(_, _)
NodeAt(tree, at) ==
    IF at = <<>> THEN tree ELSE NodeAt(tree.children[Head(at)], Tail(at))

\* The places of all nodes of a tree, the root's first.
RECURSIVE Places(_)
Places(tree) ==
    {<<>>} \cup UNION {{<<i>> \o at : at \in Places(tree.children[i])} :
                         i \in 1..Len(tree.children)}

\* Python's None, as the result of a lookup: no place holds a 0.
None == <<0>>

\* As get_subtree, with a node returned when its value is the start of the
\* path, and no node otherwise.
get_subtree_value_first(node, at, path) ==
    IF startswith(path, node.value) THEN at ELSE None

\* As get_subtree, without the test that the path starts with the value.
RECURSIVE get_subtree_unchecked(_, _, _)
get_subtree_unchecked(node, at, path) ==
    IF startswith(node.value, path) THEN at
    ELSE LET child_path ==
                 IF Len(node.value) >= Len(path) THEN ""
                 ELSE strip(SubSeq(path, Len(node.value) + 1, Len(path)), Whitespace)
             subtree == list([i \in 1..Len(node.children) |->
                            get_subtree_unchecked(node.children[i], at \o <<i>>,
                                                  child_path)])
             found == {i \in 1..Len(node.children) : subtree[i] # None}
         IN IF child_path = "" THEN at
            ELSE IF found = {} THEN None
            ELSE subtree[Min(found)]

\* node.get_subtree(path) for the node at place at: the place of the node it
\* returns, or None.
RECURSIVE get_subtree(_, _, _)
get_subtree(node, at, path) ==
    IF startswith(node.value, path) THEN at
    ELSE IF ~startswith(path, node.value) THEN None
    ELSE LET child_path ==
                 strip(SubSeq(path, Len(node.value) + 1, Len(path)), Whitespace)
             subtree == list([i \in 1..Len(node.children) |->
                            get_subtree(node.children[i], at \o <<i>>, child_path)])
             found == {i \in 1..Len(node.children) : subtree[i] # None}
         IN IF child_path = "" THEN at
            ELSE IF found = {} THEN None
            ELSE subtree[Min(found)]

(***************************************************************************)
(* Inputs.                                                                 *)
(***************************************************************************)
\* n copies of a line.
Repeat(line, n) == list([i \in 1..n |-> line])

\* The lists of a list, concatenated.
RECURSIVE Concat(_)
Concat(lists) ==
    IF lists = <<>> THEN <<>>
    ELSE IF Len(lists) = 1 THEN lists[1]
    ELSE Concat(SubSeq(lists, 1, Len(lists) \div 2))
         \o Concat(SubSeq(lists, (Len(lists) \div 2) + 1, Len(lists)))

\* The largest number of copies of one line in an input.
MaxRepeat == 5

\* How often a line occurs: not at all, once, and just below and at the
\* largest number.
Counts == {0, 1, MaxRepeat - 1, MaxRepeat}

\* Lines that share leading tokens, each with how often it may occur: among
\* them lines with the same tokens and different text, tokens that are
\* prefixes of other tokens, cruft and a line with no token.
MixLines ==
    << [line |-> "a", counts |-> Counts],
       [line |-> "a b", counts |-> Counts],
       [line |-> "[a]   1s b", counts |-> {0, 1, MaxRepeat}],
       [line |-> "a b c", counts |-> Counts],
       [line |-> "ab", counts |-> {0, 1, MaxRepeat}],
       [line |-> "12:30:00", counts |-> {0, 1}] >>

MixInputs ==
    {Concat([i \in 1..Len(MixLines) |-> Repeat(MixLines[i].line, c[i])]) :
        c \in {f \in [1..Len(MixLines) -> Counts \cup {0, 1}] :
                  \A i \in 1..Len(MixLines) : f[i] \in MixLines[i].counts}}

\* The lines of the repository's tests.
TestInputs ==
    { <<"error   25-Apr-2017 20:37:09    [some message] more text">>,
      <<"error some message", "error some message">>,
      <<"error some message", "error some message with more text">> }

\* n times the token, separated by spaces.
Tokens(token, n) == join(" ", Repeat(token, n))

\* A token of 82 characters.
LongToken == "0123456789abcdefghijklmnopqrstuvwxyz0123456789ABCDEFGHIJKLMNOPQRSTUVWXYZ0123456789"

\* The longest staircase: the lines x, x x, x x x, ... each line ends where
\* the next goes one level deeper.  On top of it, lines that go on by the
\* same tokens, and beside it lines that start with the long token.
MaxStairs == 16

StairInputs ==
    {list([i \in 1..n |-> Tokens("x", i)])
     \o Repeat(Tokens("x", n + 1) \o " y z", c) \o Repeat(LongToken \o " y", d) :
        n \in 0..MaxStairs, c \in {0, MaxRepeat}, d \in {0, MaxRepeat}}

\* The most tokens of the long lines.
MaxRun == 10

\* Lines whose common run of tokens, or whose first token, is about as long
\* as a value may be, and longer.
LongInputs ==
    {Repeat(Tokens("abcdefgh", n), c)
     \o Repeat(join("", Repeat("ABCDEFGHI", n)) \o " z", d) :
        n \in 1..MaxRun, c \in {0, 1, MaxRepeat}, d \in {0, MaxRepeat}}

\* The i-th of the two-letter tokens aa, ab, ...
WideKey(i) ==
    SubSeq(PrintableHigh, (i \div 26) + 1, (i \div 26) + 1)
    \o SubSeq(PrintableHigh, (i % 26) + 1, (i % 26) + 1)

\* How many keywords more than MAX_CHILDREN_COUNT an input has at most.
MaxExcess == 1

\* Inputs with MAX_CHILDREN_COUNT and more different first tokens: two of
\* them on 2 * MIN_LINES_COUNT lines, the others on MIN_LINES_COUNT lines.
WideInputs ==
    {Concat([i \in 1..n |->
                Repeat(WideKey(i) \o " " \o WideKey(i),
                       IF i <= 2 THEN 2 * MIN_LINES_COUNT ELSE MIN_LINES_COUNT)]) :
        n \in MAX_CHILDREN_COUNT..(MAX_CHILDREN_COUNT + MaxExcess)}

Inputs == TestInputs \cup MixInputs \cup StairInputs \cup LongInputs \cup WideInputs

\* The paths asked for that may be no node's.
OtherPaths == {"", "a", "ab", "a b", "b", " a", "a  b", "er", "x x", "zz"}

\* The path of a node, as the tree dump shows it: the values from the root
\* down to the node, joined by a space.
render_path(tree, at) ==
    join(" ", [i \in 1..(Len(at) + 1) |-> NodeAt(tree, SubSeq(at, 1, i - 1)).value])

(***************************************************************************)
(* State.                                                                  *)
(***************************************************************************)
VARIABLES
    loglines,           \* the lines read from the input
    log_tree,           \* main's tree, which becomes the model's _log_tree
    path,               \* arguments.path
    subtree,            \* what get_subtree returned: a place of the built tree or None
    phase,              \* "start" | "built" | "found" | "curses" | "exit"
    current_node,       \* LogModel._current_node, a place of log_tree
    displayed_objects,  \* LogModel._displayed_objects, places of log_tree
    tree_view_data,     \* LogModel._tree_view_data
    tree_view,          \* LogModel.tree_view, a TextView
    log_view,           \* LogModel.log_view, a TextView
    active_window       \* display_tree's active_window: "tree_view" | "log_view"

model_vars == <<current_node, displayed_objects, tree_view_data, tree_view, log_view>>

gui_vars == <<model_vars, active_window>>

vars == <<loglines, log_tree, path, subtree, phase, gui_vars>>

NoTree == [value |-> "", depth |-> 0, log |-> <<>>, children |-> <<>>]

\* A view that is not created yet.
NoView == [has_focus |-> FALSE]

\* Before main has run: no tree, and a LogModel as LogModel.__init__ leaves it.
NotStarted ==
    /\ log_tree = NoTree
    /\ path = ""
    /\ subtree = None
    /\ phase = "start"
    /\ current_node = None
    /\ displayed_objects = <<>>
    /\ tree_view_data = <<>>
    /\ tree_view = NoView
    /\ log_view = NoView
    /\ active_window = "tree_view"

InitBuild ==
    /\ loglines \in Inputs
    /\ NotStarted

\* main: tree = build_tree(log_lines).
Build ==
    /\ phase = "start"
    /\ log_tree' = build_tree(loglines)
    /\ phase' = "built"
    /\ UNCHANGED <<loglines, path, subtree, gui_vars>>

\* main: tree = tree.get_subtree(arguments.path).
GetSubtree ==
    /\ phase = "built"
    /\ \E p \in {render_path(log_tree, at) : at \in Places(log_tree)} \cup OtherPaths :
          /\ path' = p
          /\ subtree' = get_subtree(log_tree, <<>>, p)
    /\ phase' = "found"
    /\ UNCHANGED <<loglines, log_tree, gui_vars>>

NextBuild == Build \/ GetSubtree

SpecBuild == InitBuild /\ [][NextBuild]_vars

(***************************************************************************)
(* Properties of the built tree.                                           *)
(***************************************************************************)
built == phase = "built"

\* The number of tokens of a node's value: its tokens hold no whitespace and
\* are joined by single spaces.
token_count(value) == IF value = "" THEN 0 ELSE Len(re_split(value))

\* The key depth a node starts at: the number of tokens of the values of
\* its ancestors.
RECURSIVE start_depth(_, _)
start_depth(tree, at) ==
    IF at = <<>> THEN 0
    ELSE LET parent == SubSeq(at, 1, Len(at) - 1)
         IN start_depth(tree, parent) + token_count(NodeAt(tree, parent).value)

\* The longest run of tokens, from position start on, that all the lines
\* have and agree on.
common_run(lines, start) ==
    LET keys == list([i \in 1..Len(lines) |-> get_keywords(lines[i])])
        shortest == Min({Len(keys[i]) : i \in 1..Len(keys)})
        agree == {n \in 0..(shortest - start) :
                    \A i \in 1..Len(keys) :
                        SubSeq(keys[i], start + 1, start + n)
                        = SubSeq(keys[1], start + 1, start + n)}
    IN IF lines = <<>> \/ shortest < start THEN <<>>
       ELSE SubSeq(keys[1], start + 1, start + Max(agree))

\* a is b with some elements left out, the order kept.
RECURSIVE is_subsequence_from(_, _, _, _)
is_subsequence_from(a, b, i, after) ==
    IF i > Len(a) THEN TRUE
    ELSE LET next == {j \in (after + 1)..Len(b) : b[j] = a[i]}
         IN next # {} /\ is_subsequence_from(a, b, i + 1, Min(next))

is_subsequence(a, b) == is_subsequence_from(a, b, 1, 0)

\* The inputs of C1: the token sequences of the lines are T and T \o U, for
\* one T and one non-empty U, and both occur.
prefix_of_other(keys) ==
    /\ keys # <<>>
    /\ LET T == keys[CHOOSE i \in 1..Len(keys) :
                       \A j \in 1..Len(keys) : Len(keys[i]) <= Len(keys[j])]
           TU == keys[CHOOSE i \in 1..Len(keys) :
                        \A j \in 1..Len(keys) : Len(keys[i]) >= Len(keys[j])]
       IN /\ Len(T) < Len(TU)
          /\ SubSeq(TU, 1, Len(T)) = T
          /\ \A i \in 1..Len(keys) : keys[i] \in {T, TU}

\* C1 (as claimed): when some lines have the tokens T and the others the
\* tokens T followed by U, the root's value is T joined by spaces, its log is
\* the input, and it has one child, without children, whose value is U joined
\* by spaces and whose log is the lines that extend T; for any number of
\* extending lines.
C1_PrefixOfOther ==
    LET keys == list([i \in 1..Len(loglines) |-> get_keywords(loglines[i])])
        shortest == Min({Len(keys[i]) : i \in 1..Len(keys)})
        longest == CHOOSE i \in 1..Len(keys) : Len(keys[i]) > shortest
        extending == {i \in 1..Len(keys) : Len(keys[i]) > shortest}
    IN built /\ prefix_of_other(keys) =>
          /\ log_tree.value = join(" ", SubSeq(keys[longest], 1, shortest))
          /\ log_tree.log = loglines
          /\ Len(log_tree.children) = 1
          /\ log_tree.children[1].children = <<>>
          /\ log_tree.children[1].value
             = join(" ", SubSeq(keys[longest], shortest + 1, Len(keys[longest])))
          /\ log_tree.children[1].log
             = list([k \in 1..Cardinality(extending) |->
                       loglines[CHOOSE i \in extending :
                                   Cardinality({j \in extending : j < i}) = k - 1]])

\* The first n characters of a string: all of it when it is shorter.
first_chars(string, n) == IF Len(string) > n THEN SubSeq(string, 1, n) ELSE string

\* The lines of a list of (keywords, line) pairs.
lines_of(lines_data) == list([i \in 1..Len(lines_data) |-> lines_data[i].line])

\* The pairs whose keyword at key_depth is key.
bucket(lines_data, key_depth, key) ==
    SelectSeq(lines_data,
              LAMBDA d : Len(d.keys) > key_depth /\ d.keys[key_depth + 1] = key)

\* C2 (as claimed): every node's value is the tokens its lines share, from
\* the node's first key depth up to where a line ends or the lines differ,
\* joined by single spaces; no child holds all the lines of its parent.
C2_ChainCompression ==
    built =>
      \A at \in Places(log_tree) :
        LET node == NodeAt(log_tree, at)
        IN /\ node.value
              = join(" ", common_run(node.log, start_depth(log_tree, at)))
           /\ \A i \in 1..Len(node.children) :
                 Len(node.children[i].log) < Len(node.log)

\* C2 (amended): every node's value is the tokens its lines share, from the
\* node's first key depth up to where a line ends or the lines differ, joined
\* by single spaces and cut to MAX_VALUE_LENGTH characters; a node at depth
\* MAX_LAYERS_COUNT has the first of these tokens alone, cut likewise; no
\* child holds all the lines of its parent.
C2_ChainCompressionCapped ==
    built =>
      \A at \in Places(log_tree) :
        LET node == NodeAt(log_tree, at)
            run == common_run(node.log, start_depth(log_tree, at))
        IN /\ node.depth < MAX_LAYERS_COUNT =>
                 node.value = first_chars(join(" ", run), MAX_VALUE_LENGTH)
           /\ node.depth >= MAX_LAYERS_COUNT =>
                 node.value = first_chars(run[1], MAX_VALUE_LENGTH)
           /\ \A i \in 1..Len(node.children) :
                 Len(node.children[i].log) < Len(node.log)

\* A tree with a child whose value is several merged tokens and with a node
\* whose merged value was cut.
C2_Witness ==
    /\ built
    /\ \E at \in Places(log_tree) :
          /\ at # <<>>
          /\ token_count(NodeAt(log_tree, at).value) >= 2
          /\ Len(NodeAt(log_tree, at).value) < MAX_VALUE_LENGTH
    /\ \E at \in Places(log_tree) :
          /\ Len(NodeAt(log_tree, at).value) = MAX_VALUE_LENGTH
          /\ Len(join(" ", common_run(NodeAt(log_tree, at).log,
                                      start_depth(log_tree, at))))
             > MAX_VALUE_LENGTH

\* C3: the root's log is the input lines in their order; every child's log
\* is an order-preserving subsequence of its parent's log, and it is all the
\* parent's lines with the child's keyword: no line is dropped at a node.
C3_DataRetention ==
    built =>
      /\ log_tree.log = loglines
      /\ \A at \in Places(log_tree) :
           LET node == NodeAt(log_tree, at)
               data == lines_data_of(node.log)
           IN \A i \in 1..Len(node.children) :
                 /\ is_subsequence(node.children[i].log, node.log)
                 /\ node.children[i].log
                    = lines_of(bucket(data, node.key_depth, node.children[i].key))

\* A tree whose root has a child, lines of a pruned keyword, and a node
\* whose value was cut.
C3_Witness ==
    /\ built
    /\ log_tree.children # <<>>
    /\ \E j \in 1..Len(loglines) :
          LET keys == get_keywords(loglines[j])
          IN /\ Len(keys) > log_tree.key_depth
             /\ \A i \in 1..Len(log_tree.children) :
                   log_tree.children[i].key # keys[log_tree.key_depth + 1]
    /\ \E at \in Places(log_tree) :
          Len(NodeAt(log_tree, at).value) = MAX_VALUE_LENGTH

C6_DepthAndValueBounds ==
    built =>
      \A at \in Places(log_tree) :
        /\ NodeAt(log_tree, at).depth <= MAX_LAYERS_COUNT
        /\ Len(NodeAt(log_tree, at).value) <= MAX_VALUE_LENGTH

\* A tree with a node at depth MAX_LAYERS_COUNT that holds enough lines of
\* one further keyword for a child, and with a node whose value was cut.
C6_Witness ==
    /\ built
    /\ \E at \in Places(log_tree) :
          LET node == NodeAt(log_tree, at)
              data == lines_data_of(node.log)
          IN /\ node.depth = MAX_LAYERS_COUNT
             /\ \E j \in 1..Len(data) :
                   /\ Len(data[j].keys) > node.key_depth
                   /\ Len(bucket(data, node.key_depth, data[j].keys[node.key_depth + 1]))
                      >= MIN_LINES_COUNT
    /\ \E at \in Places(log_tree) :
          /\ Len(NodeAt(log_tree, at).value) = MAX_VALUE_LENGTH
          /\ Len(join(" ", common_run(NodeAt(log_tree, at).log,
                                      start_depth(log_tree, at))))
             > MAX_VALUE_LENGTH

\* C10 (as claimed): get_subtree on the root with the rendered path of a node
\* returns that node.
C10_RightInverse ==
    phase = "found" =>
      \A at \in Places(log_tree) :
        path = render_path(log_tree, at) => subtree = at

(***************************************************************************)
(* The curses interface.  A LogModel is a record of its fields; its two    *)
(* views are the fields tree_view and log_view, and a view is named by     *)
(* the name of its field.  The displayed objects are places of log_tree.   *)
(***************************************************************************)
\* TextView.__init__: the state of a view of the given window size.
TextView(height, width) ==
    [has_focus |-> FALSE, lines |-> <<>>, cursor_row |-> 0, row |-> 0, col |-> 0,
     max_col |-> 0, row_count |-> 0, height |-> height - 2, width |-> width - 2]

\* data[first:last] for 0 <= first and 0 <= last.
slice(data, first, last) == SubSeq(data, first + 1, Min({last, Len(data)}))

\* The node a displayed object is.
node_of(model, object) == NodeAt(model.log_tree, object)

_get_tree_view_data(model, row, height) ==
    LET first == Min({row, Len(model.tree_view_data)})
        last == Min({row + height, Len(model.tree_view_data)})
    IN slice(model.tree_view_data, first, last)

_get_log_view_data(model, row, height) ==
    LET log == node_of(model, model.current_node).log
        first == Min({row, Len(log)})
        last == Min({row + height, Len(log)})
    IN slice(log, first, last)

get_view_data(model, view, row, height) ==
    IF view = "tree_view" THEN _get_tree_view_data(model, row, height)
    ELSE _get_log_view_data(model, row, height)

get_row_count(model, view) ==
    IF view = "tree_view" THEN Len(model.tree_view_data)
    ELSE Len(node_of(model, model.current_node).log)

\* TextView._update_data, for the view of that name.
_update_data(model, view) ==
    LET self == model[view]
        lines == get_view_data(model, view, self.row, self.height)
        max_line_len == IF lines # <<>>
                        THEN Max({Len(lines[i]) : i \in 1..Len(lines)})
                        ELSE 0
    IN [model EXCEPT ![view].lines = lines,
                     ![view].max_col = Max({0, max_line_len - self.width})]

\* TextView.on_data_changed.
on_data_changed(model, view) ==
    LET self == model[view]
        new_row_count == get_row_count(model, view)
        lines_to_show == Min({self.height, new_row_count - self.row_count})
        lines_below_cursor == self.height - self.cursor_row - 1
        desired_scroll_up == Max({0, lines_to_show - lines_below_cursor})
        scroll_up == Min({self.cursor_row, desired_scroll_up})
        scrolled == IF new_row_count > self.row_count
                    THEN [self EXCEPT !.col = 0,
                                      !.row = self.row + scroll_up,
                                      !.cursor_row = self.cursor_row - scroll_up,
                                      !.row_count = new_row_count]
                    ELSE [self EXCEPT !.col = 0, !.row = 0,
                                      !.row_count = new_row_count]
    IN _update_data([model EXCEPT ![view] = scrolled], view)

\* LogModel._update_tree_view_data.
_update_tree_view_data(model) ==
    [model EXCEPT !.tree_view_data =
        list([i \in 1..Len(model.displayed_objects) |->
                LET obj == node_of(model, model.displayed_objects[i])
                    prefix == IF obj.children # <<>> THEN " +" ELSE " -"
                IN join("", Repeat("  ", obj.depth)) \o prefix \o obj.value])]

\* LogModel._init_tree_view_data.
_init_tree_view_data(model) ==
    _update_tree_view_data(
        [model EXCEPT !.displayed_objects =
            <<>> \o <<<<>>>> \o list([i \in 1..Len(model.log_tree.children) |-> <<i>>])])

\* LogModel.data = value.
set_data(model, value) ==
    LET loaded == _init_tree_view_data([model EXCEPT !.log_tree = value,
                                                     !.current_node = <<>>])
    IN on_data_changed(on_data_changed(loaded, "tree_view"), "log_view")

\* The model with one more call noted in its field calls, which lists the
\* calls of selected and activated that the views made while a key was
\* handled.
called(model, method, view, row) ==
    [model EXCEPT !.calls = Append(@, [method |-> method, view |-> view, row |-> row])]

\* As selected, without the test that the view is the tree view.
selected_from_any_view(model, view, row) ==
    LET noted == called(model, "selected", view, row)
    IN IF row >= Len(noted.displayed_objects) \/ row < 0 THEN noted
       ELSE on_data_changed(
                [noted EXCEPT !.current_node = noted.displayed_objects[row + 1]],
                "log_view")

\* LogModel.selected.
selected(model, view, row) ==
    LET noted == called(model, "selected", view, row)
    IN IF view # "tree_view" THEN noted
       ELSE IF row >= Len(noted.displayed_objects) THEN noted
       ELSE on_data_changed(
                [noted EXCEPT !.current_node = noted.displayed_objects[row + 1]],
                "log_view")

\* As _insert_children, the children put behind the last row.
_insert_children_at_end(model, row) ==
    LET objects == model.displayed_objects
        object == objects[row + 1]
        children == node_of(model, object).children
    IN [model EXCEPT !.displayed_objects =
           objects \o list([i \in 1..Len(children) |-> object \o <<i>>])]

\* As _insert_children, every child put right after the object at row, so
\* that the last child comes first.
_insert_children_reversed(model, row) ==
    LET objects == model.displayed_objects
        object == objects[row + 1]
        children == node_of(model, object).children
    IN [model EXCEPT !.displayed_objects =
           SubSeq(objects, 1, row + 1)
           \o list([i \in 1..Len(children) |-> object \o <<Len(children) + 1 - i>>])
           \o SubSeq(objects, row + 2, Len(objects))]

\* LogModel._insert_children: the children of the object at row, spliced in
\* after it.
_insert_children(model, row) ==
    LET objects == model.displayed_objects
        object == objects[row + 1]
        children == node_of(model, object).children
    IN [model EXCEPT !.displayed_objects =
           SubSeq(objects, 1, row + 1)
           \o list([i \in 1..Len(children) |-> object \o <<i>>])
           \o SubSeq(objects, row + 2, Len(objects))]

\* As _remove_children, the rows dropped being the ones one level deeper
\* than the object at row.
_remove_children_direct(model, row) ==
    LET objects == model.displayed_objects
        depth(r) == node_of(model, objects[r + 1]).depth
        parent_depth == depth(row)
        stop == Min({r \in (row + 1)..Len(objects) :
                        r = Len(objects) \/ depth(r) # parent_depth + 1})
    IN [model EXCEPT !.displayed_objects =
           SubSeq(objects, 1, row + 1) \o SubSeq(objects, stop + 1, Len(objects))]

\* As _remove_children, one row dropped and no more.
_remove_children_first(model, row) ==
    LET objects == model.displayed_objects
    IN [model EXCEPT !.displayed_objects =
           SubSeq(objects, 1, row + 1) \o SubSeq(objects, row + 3, Len(objects))]

\* LogModel._remove_children: the rows after row are dropped up to the first
\* one that is not deeper than the object at row.
_remove_children(model, row) ==
    LET objects == model.displayed_objects
        depth(r) == node_of(model, objects[r + 1]).depth
        parent_depth == depth(row)
        stop == Min({r \in (row + 1)..Len(objects) :
                        r = Len(objects) \/ depth(r) <= parent_depth})
    IN [model EXCEPT !.displayed_objects =
           SubSeq(objects, 1, row + 1) \o SubSeq(objects, stop + 1, Len(objects))]

\* As inserts_children, the last row taken for an expanded one.
inserts_children_not_last(model, row) ==
    LET objects == model.displayed_objects
    IN /\ row # Len(objects) - 1
       /\ node_of(model, objects[row + 1]).depth
          >= node_of(model, objects[row + 2]).depth

\* The branch of LogModel.activated: whether it inserts the children.
inserts_children(model, row) ==
    LET objects == model.displayed_objects
    IN \/ row = Len(objects) - 1
       \/ node_of(model, objects[row + 1]).depth
          >= node_of(model, objects[row + 2]).depth

\* LogModel.activated.
activated(model, view, row) ==
    LET noted == called(model, "activated", view, row)
    IN IF view # "tree_view" THEN noted
       ELSE IF row >= Len(noted.displayed_objects) THEN noted
       ELSE LET toggled == IF inserts_children(noted, row)
                           THEN _insert_children(noted, row)
                           ELSE _remove_children(noted, row)
            IN on_data_changed(_update_tree_view_data(toggled), "tree_view")

\* As _move_cursor_up, the lines kept as they are when the window moves.
_move_cursor_up_keeps_lines(model, view, value) ==
    LET self == model[view]
        old_data_row == self.row + self.cursor_row
        cursor_row == self.cursor_row - value
        moved == IF cursor_row < 0
                 THEN [model EXCEPT ![view].row = Max({0, self.row + cursor_row}),
                                    ![view].cursor_row = 0]
                 ELSE [model EXCEPT ![view].cursor_row = cursor_row]
        new_data_row == moved[view].row + moved[view].cursor_row
    IN IF new_data_row # old_data_row THEN selected(moved, view, new_data_row)
       ELSE moved

\* As _move_cursor_up, the row reported to the model after every movement.
_move_cursor_up_always_selects(model, view, value) ==
    LET self == model[view]
        cursor_row == self.cursor_row - value
        moved == IF cursor_row < 0
                 THEN _update_data(
                          [model EXCEPT ![view].row = Max({0, self.row + cursor_row}),
                                        ![view].cursor_row = 0],
                          view)
                 ELSE [model EXCEPT ![view].cursor_row = cursor_row]
    IN selected(moved, view, moved[view].row + moved[view].cursor_row)

\* TextView._move_cursor_up.
_move_cursor_up(model, view, value) ==
    LET self == model[view]
        old_data_row == self.row + self.cursor_row
        cursor_row == self.cursor_row - value
        moved == IF cursor_row < 0
                 THEN _update_data(
                          [model EXCEPT ![view].row = Max({0, self.row + cursor_row}),
                                        ![view].cursor_row = 0],
                          view)
                 ELSE [model EXCEPT ![view].cursor_row = cursor_row]
        new_data_row == moved[view].row + moved[view].cursor_row
    IN IF new_data_row # old_data_row THEN selected(moved, view, new_data_row)
       ELSE moved

\* As _move_cursor_down, a window that has to move put with its first row
\* on the new row.
_move_cursor_down_to_top(model, view, value) ==
    LET self == model[view]
        old_selected_row == self.row + self.cursor_row
        new_selected_row == Min({old_selected_row + value,
                                 get_row_count(model, view) - 1})
        moved == IF new_selected_row - self.row < self.height
                 THEN [model EXCEPT ![view].cursor_row = new_selected_row - self.row]
                 ELSE _update_data(
                          [model EXCEPT ![view].row = new_selected_row,
                                        ![view].cursor_row = 0],
                          view)
    IN IF new_selected_row # old_selected_row
       THEN selected(moved, view, new_selected_row)
       ELSE moved

\* TextView._move_cursor_down.
_move_cursor_down(model, view, value) ==
    LET self == model[view]
        old_selected_row == self.row + self.cursor_row
        new_selected_row == Min({old_selected_row + value,
                                 get_row_count(model, view) - 1})
        row == Max({0, new_selected_row - self.height + 1})
        moved == IF new_selected_row - self.row < self.height
                 THEN [model EXCEPT ![view].cursor_row = new_selected_row - self.row]
                 ELSE _update_data(
                          [model EXCEPT ![view].row = row,
                                        ![view].cursor_row = new_selected_row - row],
                          view)
    IN IF new_selected_row # old_selected_row
       THEN selected(moved, view, new_selected_row)
       ELSE moved

_on_key_up(model, view) == _move_cursor_up(model, view, 1)

_on_key_down(model, view) == _move_cursor_down(model, view, 1)

_on_key_pgup(model, view) == _move_cursor_up(model, view, model[view].height - 1)

_on_key_pgdown(model, view) == _move_cursor_down(model, view, model[view].height - 1)

_on_key_left(model, view) ==
    [model EXCEPT ![view].col = IF model[view].col - 5 < 0 THEN 0
                                ELSE model[view].col - 5]

_on_key_right(model, view) ==
    [model EXCEPT ![view].col = IF model[view].col + 5 >= model[view].max_col
                                THEN model[view].max_col
                                ELSE model[view].col + 5]

_on_key_enter(model, view) ==
    activated(model, view, model[view].row + model[view].cursor_row)

\* The keys a TextView has a function for.
_key_functions ==
    {"KEY_UP", "KEY_DOWN", "KEY_PPAGE", "KEY_NPAGE", "KEY_LEFT", "KEY_RIGHT", "ENTER"}

\* TextView.process_key.
process_key(model, view, key) ==
    CASE key = "KEY_UP" -> _on_key_up(model, view)
      [] key = "KEY_DOWN" -> _on_key_down(model, view)
      [] key = "KEY_PPAGE" -> _on_key_pgup(model, view)
      [] key = "KEY_NPAGE" -> _on_key_pgdown(model, view)
      [] key = "KEY_LEFT" -> _on_key_left(model, view)
      [] key = "KEY_RIGHT" -> _on_key_right(model, view)
      [] key = "ENTER" -> _on_key_enter(model, view)
      [] OTHER -> model

\* create_gui_objects, for a screen of ysize rows and xsize columns.
create_gui_objects(ysize, xsize, tree_object) ==
    LET tree_width == (xsize * 3) \div 10
        model == [log_tree |-> NoTree,
                  current_node |-> None,
                  displayed_objects |-> <<>>,
                  tree_view_data |-> <<>>,
                  tree_view |-> TextView(ysize - 1, tree_width),
                  log_view |-> TextView(ysize - 1, xsize - tree_width),
                  calls |-> <<>>]
    IN set_data(model, tree_object)

(***************************************************************************)
(* The interface at work: main builds the tree, display_tree creates the   *)
(* model and the views and then handles one key after the other.           *)
(***************************************************************************)
\* Logs to look at: no line; a root with one child; a root with children,
\* grandchildren and great-grandchildren, and lines of different widths.
GuiInputs ==
    { <<>>,
      <<"a">> \o Repeat("a b", MIN_LINES_COUNT),
      Repeat("a b c", MIN_LINES_COUNT - 1) \o <<"a b c tail">>
      \o Repeat("a b d", MIN_LINES_COUNT)
      \o Repeat("a e", MIN_LINES_COUNT)
      \o Repeat("f", MIN_LINES_COUNT) }

\* The values of arguments.path: none, a node's, no node's.
GuiPaths == {"", "a", "zz"}

\* The screen sizes: a low screen and a high one, of one width.
MinYSize == 5

MaxYSize == 9

XSize == 14

Screens == {[ysize |-> y, xsize |-> XSize] : y \in {MinYSize, MaxYSize}}

\* The LogModel of the current state.
Model ==
    [log_tree |-> log_tree,
     current_node |-> current_node,
     displayed_objects |-> displayed_objects,
     tree_view_data |-> tree_view_data,
     tree_view |-> tree_view,
     log_view |-> log_view,
     calls |-> <<>>]

\* The next state holds this LogModel.
Becomes(model) ==
    /\ log_tree' = model.log_tree
    /\ current_node' = model.current_node
    /\ displayed_objects' = model.displayed_objects
    /\ tree_view_data' = model.tree_view_data
    /\ tree_view' = model.tree_view
    /\ log_view' = model.log_view

Init ==
    /\ loglines \in GuiInputs
    /\ NotStarted

\* main with the command curses, up to the first getch of display_tree: the
\* tree is built, the subtree at arguments.path is looked up, the views are
\* created and the tree view gets the focus.
RunCurses ==
    /\ phase = "start"
    /\ \E p \in GuiPaths, screen \in Screens :
          LET tree == build_tree(loglines)
              found == IF p = "" THEN <<>> ELSE get_subtree(tree, <<>>, p)
              model == create_gui_objects(screen.ysize, screen.xsize,
                                          NodeAt(tree, found))
          IN /\ path' = p
             /\ subtree' = found
             /\ IF found = None
                THEN /\ phase' = "exit"
                     /\ UNCHANGED <<log_tree, gui_vars>>
                ELSE /\ phase' = "curses"
                     /\ Becomes([model EXCEPT !.tree_view.has_focus = TRUE])
                     /\ active_window' = "tree_view"
    /\ UNCHANGED loglines

\* display_tree: a key that the active window processes.
Key(key) ==
    /\ phase = "curses"
    /\ Becomes(process_key(Model, active_window, key))
    /\ UNCHANGED <<loglines, path, subtree, phase, active_window>>

KeyUp == Key("KEY_UP")

KeyDown == Key("KEY_DOWN")

KeyPgUp == Key("KEY_PPAGE")

KeyPgDown == Key("KEY_NPAGE")

KeyLeft == Key("KEY_LEFT")

KeyRight == Key("KEY_RIGHT")

KeyEnter == Key("ENTER")

\* display_tree: the tab key gives the focus to the other window.
KeyTab ==
    /\ phase = "curses"
    /\ active_window' = IF active_window = "tree_view" THEN "log_view"
                        ELSE "tree_view"
    /\ tree_view' = [tree_view EXCEPT !.has_focus = (active_window' = "tree_view")]
    /\ log_view' = [log_view EXCEPT !.has_focus = (active_window' = "log_view")]
    /\ UNCHANGED <<loglines, log_tree, path, subtree, phase,
                   current_node, displayed_objects, tree_view_data>>

Next ==
    \/ RunCurses
    \/ KeyUp
    \/ KeyDown
    \/ KeyPgUp
    \/ KeyPgDown
    \/ KeyLeft
    \/ KeyRight
    \/ KeyEnter
    \/ KeyTab

Spec == Init /\ [][Next]_vars

(***************************************************************************)
(* Properties of the interface.                                            *)
(***************************************************************************)
\* The two TextViews of the current state, by name.
view_of(view) == IF view = "tree_view" THEN tree_view ELSE log_view

\* The place p is the place q or an ancestor of it.
is_prefix(p, q) == Len(p) <= Len(q) /\ SubSeq(q, 1, Len(p)) = p

proper_prefix(p, q) == Len(p) < Len(q) /\ is_prefix(p, q)

\* The place of the parent of the node at a place other than the root's.
parent_of(p) == SubSeq(p, 1, Len(p) - 1)

\* C7 (as claimed): in both views the absolute cursor row c = row +
\* cursor_row is inside the window, row <= c < row + height, and, when the
\* view has rows, inside the rows, 0 <= c <= row_count - 1.
C7_ViewportInvariant ==
    phase = "curses" =>
      \A view \in {"tree_view", "log_view"} :
        LET self == view_of(view)
            c == self.row + self.cursor_row
        IN /\ self.row <= c
           /\ c < self.row + self.height
           /\ self.row_count >= 1 => 0 <= c /\ c <= self.row_count - 1

\* C8: the displayed objects are a pre-order listing: the first is the root,
\* none occurs twice, every other one comes after its parent with only
\* descendants of the parent in between, the displayed children of a node
\* are in the node's child order, and they come before any later sibling of
\* the node.
C8_PreOrderListing ==
    phase = "curses" =>
      LET objects == displayed_objects
          rows == 1..Len(objects)
      IN /\ objects # <<>>
         /\ objects[1] = <<>>
         /\ \A i \in rows : objects[i] \in Places(log_tree)
         /\ \A i, j \in rows : i # j => objects[i] # objects[j]
         /\ \A i \in rows \ {1} :
               /\ objects[i] # <<>>
               /\ \E j \in 1..(i - 1) :
                     /\ objects[j] = parent_of(objects[i])
                     /\ \A k \in (j + 1)..(i - 1) :
                           proper_prefix(objects[j], objects[k])
         /\ \A i, j \in rows :
               /\ objects[i] # <<>>
               /\ objects[j] # <<>>
               /\ parent_of(objects[i]) = parent_of(objects[j])
               /\ i < j
               => objects[i][Len(objects[i])] < objects[j][Len(objects[j])]
         /\ \A i, j \in rows :
               /\ Len(objects[i]) >= 2
               /\ objects[j] # <<>>
               /\ parent_of(parent_of(objects[i])) = parent_of(objects[j])
               /\ objects[i][Len(objects[i]) - 1] < objects[j][Len(objects[j])]
               => i < j

\* A listing with an expanded child of an expanded child of the root, and a
\* later child of the root after them.
C8_Witness ==
    /\ phase = "curses"
    /\ \E i, j \in 1..Len(displayed_objects) :
          /\ i < j
          /\ Len(displayed_objects[i]) = 3
          /\ Len(displayed_objects[j]) = 1

\* The number of rows after row (counted from 0) that follow one another
\* and are deeper than the object at row.
deeper_run(objects, row) ==
    LET depth(r) == NodeAt(log_tree, objects[r + 1]).depth
    IN Max({n \in 0..(Len(objects) - row - 1) :
               \A m \in 1..n : depth(row + m) > depth(row)})

\* C9: Enter in the tree view on a row whose following row is deeper removes
\* the run of deeper rows after it, which are the displayed descendants of
\* its object, and keeps the rows before and after in their order.
C9_CollapseRemovesDeeperRun ==
    [][LET objects == displayed_objects
           row == tree_view.row + tree_view.cursor_row
           depth(r) == NodeAt(log_tree, objects[r + 1]).depth
           removed == deeper_run(objects, row)
       IN /\ KeyEnter
          /\ active_window = "tree_view"
          /\ row < Len(objects) - 1
          /\ depth(row + 1) > depth(row)
          => /\ removed >= 1
             /\ displayed_objects'
                = SubSeq(objects, 1, row + 1)
                  \o SubSeq(objects, row + removed + 2, Len(objects))
             /\ \A i \in 1..Len(objects) :
                   proper_prefix(objects[row + 1], objects[i])
                   <=> (i > row + 1 /\ i <= row + 1 + removed)
      ]_vars

\* The state after Enter on the first child of the root in a scrolled tree
\* view: its children are gone, the window is back at the top, and the
\* cursor is on the root while the first child is still the selected node.
C9_Witness ==
    /\ phase = "curses"
    /\ current_node = <<1>>
    /\ log_tree.children[1].children # <<>>
    /\ displayed_objects = <<>> \o <<<<>>>>
                           \o list([i \in 1..Len(log_tree.children) |-> <<i>>])
    /\ Len(log_tree.children) >= 2
    /\ tree_view.row + tree_view.cursor_row = 0

\* The width of the widest of the lines a view holds, 0 when it holds none.
content_width(self) ==
    IF self.lines = <<>> THEN 0
    ELSE Max({Len(self.lines[i]) : i \in 1..Len(self.lines)})

\* C11 (as claimed): in both views the horizontal offset col is at least 0
\* and at most max(0, contentWidth - width), for the widest of the lines the
\* view holds.
C11_ColumnInvariant ==
    phase = "curses" =>
      \A view \in {"tree_view", "log_view"} :
        LET self == view_of(view)
        IN /\ 0 <= self.col
           /\ self.col <= Max({0, content_width(self) - self.width})

\* C12: a lookup leaves the tree as it is and gives a place of a node of the
\* tree or None, and None when the path neither starts with the root's value
\* nor is the start of it.
C12_LookupFailureIsAValue ==
    /\ [](phase = "found" =>
            /\ subtree \in Places(log_tree) \cup {None}
            /\ (/\ ~startswith(path, log_tree.value)
                /\ ~startswith(log_tree.value, path))
               => subtree = None)
    /\ [][phase = "built" => log_tree' = log_tree]_vars

\* A lookup that failed below a root with children, whose value the path
\* starts with.
C12_Witness ==
    /\ phase = "found"
    /\ subtree = None
    /\ startswith(path, log_tree.value)
    /\ log_tree.children # <<>>

\* The row of the tree view's cursor, counted from 0.
tree_row == tree_view.row + tree_view.cursor_row

\* The depth of the displayed object at a row counted from 0.
row_depth(objects, row) == NodeAt(log_tree, objects[row + 1]).depth

\* The objects without the run of deeper rows after row.
collapsed_at(objects, row) ==
    SubSeq(objects, 1, row + 1)
    \o SubSeq(objects, row + deeper_run(objects, row) + 2, Len(objects))

\* The objects with the children of the object at row put in after it.
expanded_at(objects, row) ==
    SubSeq(objects, 1, row + 1)
    \o list([i \in 1..Len(NodeAt(log_tree, objects[row + 1]).children) |->
               objects[row + 1] \o <<i>>])
    \o SubSeq(objects, row + 2, Len(objects))

\* Enter in the tree view on a displayed row.
activation == KeyEnter /\ active_window = "tree_view" /\ tree_row < Len(displayed_objects)

\* C13 (as claimed): a row is expanded when it is the last row or the row
\* after it is deeper; Enter on an expanded row only removes rows, and Enter
\* on any other row inserts the children of its object.
C13_ExpandedOrLast ==
    [][LET objects == displayed_objects
           expanded == \/ tree_row = Len(objects) - 1
                       \/ row_depth(objects, tree_row + 1)
                          > row_depth(objects, tree_row)
       IN activation =>
            /\ expanded => displayed_objects' = collapsed_at(objects, tree_row)
            /\ ~expanded => displayed_objects' = expanded_at(objects, tree_row)
      ]_vars

\* C13 (amended): a row is expanded when it is not the last row and the row
\* after it is deeper; Enter on an expanded row only removes rows, and Enter
\* on any other row, the last row among them, inserts the children of its
\* object.
C13_ExpandedNotLast ==
    [][LET objects == displayed_objects
           expanded == /\ tree_row # Len(objects) - 1
                       /\ row_depth(objects, tree_row + 1)
                          > row_depth(objects, tree_row)
       IN activation =>
            /\ expanded => displayed_objects' = collapsed_at(objects, tree_row)
            /\ ~expanded => displayed_objects' = expanded_at(objects, tree_row)
      ]_vars

\* The root with children is the only row, so the last one, and the tree
\* view has the focus: Enter has removed the children and will insert them.
C13_Witness ==
    /\ phase = "curses"
    /\ active_window = "tree_view"
    /\ displayed_objects = <<>> \o <<<<>>>>
    /\ log_tree.children # <<>>

\* The label of a displayed object: two spaces for every level of depth, a
\* plus sign for an object with children and a minus sign for one without,
\* and the value.
label_of(object) ==
    LET node == NodeAt(log_tree, object)
    IN join("", Repeat("  ", node.depth))
       \o (IF node.children = <<>> THEN " -" ELSE " +") \o node.value

\* C14: Enter on a row that is the last one or is followed by a row that is
\* not deeper, and whose object has k >= 1 children, puts these k children,
\* in their order, on the rows row+1 .. row+k, keeps the rows before and moves
\* the rows after by k; the labels are then the labels of the displayed
\* objects, one for each row.
C14_ExpandInsertsChildren ==
    [][LET objects == displayed_objects
           object == objects[tree_row + 1]
           k == Len(NodeAt(log_tree, object).children)
           collapsed == \/ tree_row = Len(objects) - 1
                        \/ row_depth(objects, tree_row + 1)
                           <= row_depth(objects, tree_row)
       IN activation /\ collapsed /\ k >= 1 =>
            /\ Len(displayed_objects') = Len(objects) + k
            /\ \A i \in 1..(tree_row + 1) : displayed_objects'[i] = objects[i]
            /\ \A i \in 1..k : displayed_objects'[tree_row + 1 + i] = object \o <<i>>
            /\ \A i \in (tree_row + 2)..Len(objects) :
                  displayed_objects'[i + k] = objects[i]
            /\ Len(tree_view_data') = Len(displayed_objects')
            /\ \A i \in 1..Len(displayed_objects') :
                  tree_view_data'[i] = label_of(displayed_objects'[i])
      ]_vars

\* The children of the first child of the root are displayed after it, with
\* their labels, and a row follows them.
C14_Witness ==
    /\ phase = "curses"
    /\ \E r \in 1..Len(displayed_objects) :
          LET k == Len(NodeAt(log_tree, displayed_objects[r]).children)
          IN /\ displayed_objects[r] = <<1>>
             /\ k >= 2
             /\ r + k < Len(displayed_objects)
             /\ \A i \in 1..k :
                   /\ displayed_objects[r + i] = <<1, i>>
                   /\ tree_view_data[r + i] = label_of(<<1, i>>)

\* The absolute cursor row of a view is one of its rows, when it has rows.
cursor_in_rows(self) ==
    self.row_count >= 1 =>
      /\ 0 <= self.row + self.cursor_row
      /\ self.row + self.cursor_row <= self.row_count - 1

\* A key in the tree view that moves its cursor to another row, which the
\* model answers with a data-changed notification to the log view.
selection == /\ KeyUp \/ KeyDown \/ KeyPgUp \/ KeyPgDown
             /\ active_window = "tree_view"
             /\ tree_row' # tree_row

\* C15 (as claimed): after a data-changed notification the cursor of the
\* notified view is on one of its rows: the log view's after a selection,
\* the tree view's after an activation.
C15_CursorInRowsAfterDataChanged ==
    [][/\ selection => cursor_in_rows(log_view')
       /\ activation => cursor_in_rows(tree_view')
      ]_vars

\* A row number brought into the rows 0 .. row_count - 1.
clamp(row, row_count) == Max({0, Min({row, row_count - 1})})

\* The first row of the window of a view after a movement by n rows, as C16
\* has it.
origin_after(self, n) ==
    LET new == clamp(self.row + self.cursor_row + n, self.row_count)
    IN IF self.row <= new /\ new < self.row + self.height THEN self.row
       ELSE IF new < self.row THEN new
       ELSE new - self.height + 1

\* The view with the focus, and what it is after the step.
active_view == view_of(active_window)

active_view_after == IF active_window = "tree_view" THEN tree_view' ELSE log_view'

\* C16: a movement by n rows in a view whose cursor is inside its window
\* leaves the window where it is when the new row, the old row plus n
\* brought into the rows, is inside the window; otherwise the window's first
\* row becomes the new row when that is above the window, and the new row
\* minus the height plus 1 when it is below.
C16_MinimalScroll ==
    [][phase = "curses" /\ 0 <= active_view.cursor_row
       /\ active_view.cursor_row < active_view.height =>
         /\ KeyUp => active_view_after.row = origin_after(active_view, -1)
         /\ KeyDown => active_view_after.row = origin_after(active_view, 1)
         /\ KeyPgUp => active_view_after.row
                       = origin_after(active_view, 1 - active_view.height)
         /\ KeyPgDown => active_view_after.row
                         = origin_after(active_view, active_view.height - 1)
      ]_vars

\* The log view, holding the focus, with its window moved down and the
\* cursor on the first row of the window.
C16_Witness ==
    /\ phase = "curses"
    /\ active_window = "log_view"
    /\ log_view.row >= 1
    /\ log_view.cursor_row = 0
    /\ log_view.row + log_view.height <= log_view.row_count

\* The keys that move the cursor up or down.
vertical_keys == {"KEY_UP", "KEY_DOWN", "KEY_PPAGE", "KEY_NPAGE"}

\* C17: whatever the state, a vertical movement in the view with the focus
\* calls selected, once and with the view and its new absolute cursor row,
\* when that row is not the one before the key, and does not call it and
\* leaves the selected node alone when the row is the same.
C17_SelectionIffRowChanged ==
    phase = "curses" =>
      \A key \in vertical_keys :
        LET after == process_key(Model, active_window, key)
            old_row == active_view.row + active_view.cursor_row
            new_row == after[active_window].row + after[active_window].cursor_row
        IN /\ new_row # old_row =>
                 after.calls = <<[method |-> "selected", view |-> active_window,
                                  row |-> new_row]>>
           /\ new_row = old_row =>
                 /\ after.calls = <<>>
                 /\ after.current_node = current_node

\* The tree view's cursor has moved to the last of several rows, which is
\* now the selected node: Down reports nothing here, and Up does.
C17_Witness ==
    /\ phase = "curses"
    /\ active_window = "tree_view"
    /\ Len(displayed_objects) >= 2
    /\ tree_row = Len(displayed_objects) - 1
    /\ current_node = displayed_objects[Len(displayed_objects)]
    /\ process_key(Model, "tree_view", "KEY_DOWN").calls = <<>>
    /\ process_key(Model, "tree_view", "KEY_UP").calls # <<>>

\* C18 (as claimed): get_subtree on a node gives the node when the node's
\* value is the start of the path, and None when neither is the start of
\* the other.
C18_ValueStartsPath ==
    phase = "found" =>
      \A at \in Places(log_tree) :
        LET node == NodeAt(log_tree, at)
        IN /\ startswith(path, node.value) => get_subtree(node, at, path) = at
           /\ (~startswith(path, node.value) /\ ~startswith(node.value, path))
              => get_subtree(node, at, path) = None

\* C18 (amended): get_subtree on a node gives the node when the path is the
\* start of the node's value, and None when neither is the start of the
\* other.
C18_PathStartsValue ==
    phase = "found" =>
      \A at \in Places(log_tree) :
        LET node == NodeAt(log_tree, at)
        IN /\ startswith(node.value, path) => get_subtree(node, at, path) = at
           /\ (~startswith(path, node.value) /\ ~startswith(node.value, path))
              => get_subtree(node, at, path) = None

\* A path that is the start of the longer value of a node below the root,
\* in a tree with another node whose value and the path do not start one
\* another.
C18_Witness ==
    /\ phase = "found"
    /\ path # ""
    /\ \E at \in Places(log_tree) :
          /\ at # <<>>
          /\ startswith(NodeAt(log_tree, at).value, path)
          /\ Len(path) < Len(NodeAt(log_tree, at).value)
    /\ \E at \in Places(log_tree) :
          /\ ~startswith(NodeAt(log_tree, at).value, path)
          /\ ~startswith(path, NodeAt(log_tree, at).value)

\* C19 (as claimed): the selected node is the displayed object on the row
\* of the tree view's cursor.
C19_SelectedIsUnderCursor ==
    phase = "curses" =>
      /\ 0 <= tree_row
      /\ tree_row < Len(displayed_objects)
      /\ current_node = displayed_objects[tree_row + 1]

\* The rows first .. first + height - 1, counted from 0, of the rows the
\* model holds, as far as there are such rows.
window_of(rows, first, height) ==
    list([i \in 1..Max({0, Min({height, Len(rows) - first})}) |-> rows[first + i]])

\* C20: the lines of the tree view are the labels in its window, and the
\* lines of the log view are the lines of the selected node in its window.
C20_LinesAreTheWindow ==
    phase = "curses" =>
      /\ tree_view.lines
         = window_of(tree_view_data, tree_view.row, tree_view.height)
      /\ log_view.lines
         = window_of(NodeAt(log_tree, current_node).log, log_view.row,
                     log_view.height)

\* Both views have their windows moved down, the log view showing the lines
\* of a node other than the root, in a window that the rows fill.
C20_Witness ==
    /\ phase = "curses"
    /\ tree_view.row >= 1
    /\ log_view.row >= 1
    /\ current_node # <<>>
    /\ Len(log_view.lines) = log_view.height

\* Two models hold the same tree, displayed objects, labels and selected
\* node.
same_model(a, b) ==
    /\ a.log_tree = b.log_tree
    /\ a.displayed_objects = b.displayed_objects
    /\ a.tree_view_data = b.tree_view_data
    /\ a.current_node = b.current_node

\* How far beyond the last displayed row the requests of C21 go.
MaxBeyond == 2

\* C21: whatever the state, no key handled by the log view changes the
\* displayed objects, the labels or the selected node, and neither does a
\* call of selected or activated for the tree view with a row at or beyond
\* the end of the displayed objects, which changes no view either.
C21_LogViewKeysLeaveModel ==
    phase = "curses" =>
      /\ \A key \in _key_functions :
            LET after == process_key(Model, "log_view", key)
            IN /\ same_model(after, Model)
               /\ after.tree_view = tree_view
      /\ \A beyond \in 0..MaxBeyond :
            LET row == Len(displayed_objects) + beyond
            IN /\ same_model(selected(Model, "tree_view", row), Model)
               /\ selected(Model, "tree_view", row).log_view = log_view
               /\ same_model(activated(Model, "tree_view", row), Model)
               /\ activated(Model, "tree_view", row).tree_view = tree_view

\* The log view has the focus and its cursor has moved down; the tree view
\* shows several rows, the selected node is not the first of them, and the
\* log view's keys call the model: Up calls selected, Enter calls activated.
C21_Witness ==
    /\ phase = "curses"
    /\ active_window = "log_view"
    /\ log_view.row + log_view.cursor_row >= 1
    /\ Len(displayed_objects) >= 2
    /\ current_node # displayed_objects[1]
    /\ process_key(Model, "log_view", "KEY_UP").calls # <<>>
    /\ process_key(Model, "log_view", "ENTER").calls # <<>>

\* The row, counted from 0, is one that an activation expands, and its
\* object has children.
can_expand(row) ==
    /\ inserts_children(Model, row)
    /\ NodeAt(log_tree, displayed_objects[row + 1]).children # <<>>

\* C22: whatever the state, two activations in succession of a displayed
\* row that is collapsed and whose object has children give back the
\* displayed objects and the labels; so do two Enter keys in the tree view
\* with the cursor on such a row.
C22_ExpandCollapseRoundTrip ==
    phase = "curses" =>
      /\ \A row \in 0..(Len(displayed_objects) - 1) :
            can_expand(row) =>
              LET once == activated(Model, "tree_view", row)
                  twice == activated(once, "tree_view", row)
              IN /\ Len(once.displayed_objects) > Len(displayed_objects)
                 /\ twice.displayed_objects = displayed_objects
                 /\ twice.tree_view_data = tree_view_data
      /\ (0 <= tree_row /\ tree_row < Len(displayed_objects)
          /\ can_expand(tree_row)) =>
            LET once == process_key(Model, "tree_view", "ENTER")
                twice == process_key(once, "tree_view", "ENTER")
            IN /\ Len(once.displayed_objects) > Len(displayed_objects)
               /\ twice.displayed_objects = displayed_objects
               /\ twice.tree_view_data = tree_view_data

\* The tree view's cursor is on a collapsed row with several children that
\* is below the root's rows and is followed by another row.
C22_Witness ==
    /\ phase = "curses"
    /\ active_window = "tree_view"
    /\ tree_row >= 0
    /\ tree_row < Len(displayed_objects) - 1
    /\ Len(displayed_objects[tree_row + 1]) = 2
    /\ can_expand(tree_row)
    /\ Len(NodeAt(log_tree, displayed_objects[tree_row + 1]).children) >= 2

\* The thresholds the pruning loop can end with for a node of so many lines:
\* MIN_LINES_COUNT, or a doubling of it that is reached only when more than
\* MAX_CHILDREN_COUNT keywords have half as many lines each.
RECURSIVE thresholds(_, _)
thresholds(threshold, line_count) ==
    IF (MAX_CHILDREN_COUNT + 1) * threshold > line_count THEN {threshold}
    ELSE {threshold} \cup thresholds(2 * threshold, line_count)

\* C23: build_tree gives a tree, and at every node of it the assertion held
\* at every call, the pruning loop ended with one of the finitely many
\* thresholds that the number of lines allows, the chain compression
\* stopped at a key depth that no line is shorter than and where a line
\* ends or the next keys are not all the same one or the value is cut, and
\* every child is one level deeper, not beyond MAX_LAYERS_COUNT, and
\* starts after the key depth of its parent.
C23_BuildTerminates ==
    built =>
      \A at \in Places(log_tree) :
        LET node == NodeAt(log_tree, at)
            data == lines_data_of(node.log)
            next_keys == {data[i].keys[node.key_depth + 1] :
                            i \in {j \in 1..Len(data) :
                                     Len(data[j].keys) > node.key_depth}}
        IN /\ node.assert_ok
           /\ \A i \in 1..Len(data) : Len(data[i].keys) >= node.key_depth
           /\ node.threshold \in {0} \cup thresholds(MIN_LINES_COUNT, Len(node.log))
           /\ node.threshold > 0 =>
                 \/ \E i \in 1..Len(data) : Len(data[i].keys) = node.key_depth
                 \/ Cardinality(next_keys) # 1
           /\ node.threshold = 0 =>
                 \/ Len(node.value) = MAX_VALUE_LENGTH
                 \/ node.depth = MAX_LAYERS_COUNT
           /\ node.depth <= MAX_LAYERS_COUNT
           /\ \A i \in 1..Len(node.children) :
                 /\ node.children[i].depth = node.depth + 1
                 /\ node.children[i].key_depth > node.key_depth

\* A root whose pruning loop doubled its threshold and left children whose
\* values are several merged tokens, each ending where its lines end.
C23_Witness ==
    /\ built
    /\ log_tree.threshold > MIN_LINES_COUNT
    /\ log_tree.children # <<>>
    /\ \A i \in 1..Len(log_tree.children) :
          /\ log_tree.children[i].key_depth >= 2
          /\ log_tree.children[i].threshold = MIN_LINES_COUNT

====
